---- MODULE Spec2Model ----
(***************************************************************************)
(* Model of the dynamic SQL CRUD tool layer, "Ai-Agent CRUD/tools.js".     *)
(*                                                                         *)
(* One call of an exported operation is followed from its entry to its     *)
(* return.  An action is one synchronous segment of the async function     *)
(* (entry up to the first await, or the code between two awaits); the      *)
(* database settles the statements in flight in any order.                 *)
(*                                                                         *)
(* The database keeps the tables that CREATE and INSERT statements store    *)
(* (SpecCreate follows successive createDynamicTable calls); the /chat      *)
(* handler of "Ai-Agent CRUD/index.js" is followed on its own (SpecChat).   *)
(*                                                                         *)
(* A string that reaches SQL text is a sequence of characters.  SQL text   *)
(* is a sequence of tokens: fixed text of the template literal ("kw"),     *)
(* an interpolated value ("interp"), a positional placeholder ("ph").      *)
(***************************************************************************)
EXTENDS Integers, Sequences, FiniteSets, TLC

VARIABLES pc, call, sent, env, si, alterQueries, db, ncalls, chat

vars == <<pc, call, sent, env, si, alterQueries, db, ncalls, chat>>

-----------------------------------------------------------------------------
(* Bounds of the model *)

MaxNameLen == 3
MaxCols == 2
MaxRows == 2
MaxUpdates == 2
MaxSchema == 2
MaxBatch == 3
MaxCriteria == 2
MaxCalls == 2
MaxMessages == 6

-----------------------------------------------------------------------------
(* Characters and strings *)

LowerSeq == <<"a","b","c","d","e","f","g","h","i","j","k","l","m",
             "n","o","p","q","r","s","t","u","v","w","x","y","z">>
UpperSeq == <<"A","B","C","D","E","F","G","H","I","J","K","L","M",
             "N","O","P","Q","R","S","T","U","V","W","X","Y","Z">>
Lower == {LowerSeq[i] : i \in 1..Len(LowerSeq)}
Upper == {UpperSeq[i] : i \in 1..Len(UpperSeq)}
Digit == {"0","1","2","3","4","5","6","7","8","9"}

\* the characters the validator is exercised on: one of every class
Alphabet == {"a", "Z", "_", "7", ";", " "}

RECURSIVE StringsOfLen(_)
StringsOfLen(n) ==
  IF n = 0 THEN {<<>>}
  ELSE {Append(s, c) : s \in StringsOfLen(n - 1), c \in Alphabet}

Strings(n) == UNION {StringsOfLen(k) : k \in 0..n}

\* String.prototype.toUpperCase
toUpperChar(c) ==
  IF c \in Lower THEN UpperSeq[CHOOSE i \in 1..Len(LowerSeq) : LowerSeq[i] = c] ELSE c

toUpperCase(str) == [i \in 1..Len(str) |-> toUpperChar(str[i])]

-----------------------------------------------------------------------------
(* validateName: /^[a-zA-Z_][a-zA-Z0-9_]*$/.test(name)                      *)

\* the matcher walks the string: ^, one [a-zA-Z_], then [a-zA-Z0-9_]*, then $
RECURSIVE RegexRest(_, _)
RegexRest(name, i) ==
  IF i > Len(name) THEN TRUE
  ELSE /\ name[i] \in Lower \cup Upper \cup Digit \cup {"_"}
       /\ RegexRest(name, i + 1)

RegexTestLoose(name) == RegexRest(name, 1)

RegexTest(name) ==
  /\ Len(name) >= 1
  /\ name[1] \in Lower \cup Upper \cup {"_"}
  /\ RegexRest(name, 2)

\* TRUE when validateName returns normally, FALSE when it throws
validateName(name) == RegexTest(name)

-----------------------------------------------------------------------------
(* SQL text, errors, statements, envelopes *)

Kw(s) == [t |-> "kw", v |-> <<s>>, n |-> 0]
Interp(s) == [t |-> "interp", v |-> s, n |-> 0]
Ph(i) == [t |-> "ph", v |-> <<>>, n |-> i]

\* Array.prototype.join: the pieces with the separator between them
RECURSIVE JoinWith(_, _)
JoinWith(pieces, sep) ==
  IF Len(pieces) = 0 THEN <<>>
  ELSE IF Len(pieces) = 1 THEN pieces[1]
  ELSE pieces[1] \o <<sep>> \o JoinWith(Tail(pieces), sep)

RECURSIVE Flatten(_)
Flatten(seqs) ==
  IF Len(seqs) = 0 THEN <<>> ELSE seqs[1] \o Flatten(Tail(seqs))

\* a positional parameter: a scalar, or (removeDataFromTable) one array
Scalar(x) == [arr |-> FALSE, items |-> <<x>>]
Arr(xs) == [arr |-> TRUE, items |-> xs]

Msg(fmt, arg) == [fmt |-> fmt, arg |-> arg]
NoMsg == Msg("", <<>>)
StoreErrorText == Msg("<store error text>", <<>>)
TypeErrorText == Msg("Cannot destructure property of 'undefined'", <<>>)

\* outcome of a synchronous piece of a try block: it threw, or it built a statement
Throw(m) == [threw |-> TRUE, err |-> m, sql |-> <<>>, params |-> <<>>]
Built(sql, params) == [threw |-> FALSE, err |-> NoMsg, sql |-> sql, params |-> params]

\* pool.query(sql, params): a statement handed to the pool, not yet settled
Stmt(sql, params) ==
  [sql |-> sql, params |-> params, st |-> "pending", rows |-> <<>>,
   exists |-> FALSE, at |-> 0, error |-> ""]

\* what the call has produced: nothing yet, an envelope {success, message | data |
\* columns}, or a rejection of the async function's promise
NoEnv == [kind |-> "none", success |-> FALSE, hasMessage |-> FALSE,
          message |-> NoMsg, field |-> "", data |-> <<>>]
Failure(m) == [kind |-> "envelope", success |-> FALSE, hasMessage |-> TRUE,
               message |-> m, field |-> "", data |-> <<>>]
SuccessMsg(m) == [kind |-> "envelope", success |-> TRUE, hasMessage |-> TRUE,
                  message |-> m, field |-> "", data |-> <<>>]
SuccessData(rows) == [kind |-> "envelope", success |-> TRUE, hasMessage |-> FALSE,
                      message |-> NoMsg, field |-> "data", data |-> rows]
SuccessColumns(rows) == [kind |-> "envelope", success |-> TRUE, hasMessage |-> FALSE,
                         message |-> NoMsg, field |-> "columns", data |-> rows]
Rejected(m) == [kind |-> "rejected", success |-> FALSE, hasMessage |-> FALSE,
                message |-> m, field |-> "", data |-> <<>>]

StmtKind(s) == s.sql[1].v[1]
Settled(s) == s.st # "pending"

-----------------------------------------------------------------------------
(* createDynamicTable *)

ID == <<"i","d">>
CREATED_AT == <<"c","r","e","a","t","e","d","_","a","t">>
UPDATED_AT == <<"u","p","d","a","t","e","d","_","a","t">>

defaultColumns ==
  << [name |-> ID, type |-> "integer", primaryKey |-> TRUE],
     [name |-> CREATED_AT, type |-> "timestamp", primaryKey |-> FALSE],
     [name |-> UPDATED_AT, type |-> "timestamp", primaryKey |-> FALSE] >>

isDefaultName(col) == \E i \in 1..Len(defaultColumns) : defaultColumns[i].name = col.name

KeepCallerColumn(col) == ~isDefaultName(col)

allColumnsNoFilter(columns) == defaultColumns \o columns

allColumns(columns) == defaultColumns \o SelectSeq(columns, KeepCallerColumn)

SupportedTypes == {"integer", "text", "timestamp", "boolean", "decimal"}

\* the switch over col.type (the default branch throws, see columnDefinitions)
columnDefinition(col) ==
  CASE col.type = "integer" ->
         <<Interp(col.name), Kw("SERIAL")>>
           \o (IF col.primaryKey THEN <<Kw("PRIMARY KEY")>> ELSE <<>>)
    [] col.type = "text" -> <<Interp(col.name), Kw("TEXT NOT NULL")>>
    [] col.type = "timestamp" -> <<Interp(col.name), Kw("TIMESTAMPTZ DEFAULT NOW()")>>
    [] col.type = "boolean" -> <<Interp(col.name), Kw("BOOLEAN DEFAULT FALSE")>>
    [] col.type = "decimal" -> <<Interp(col.name), Kw("DECIMAL(10,2)")>>
    [] OTHER -> <<>>

FirstUnsupported(cols) ==
  IF \E i \in 1..Len(cols) : cols[i].type \notin SupportedTypes
  THEN CHOOSE i \in 1..Len(cols) :
         /\ cols[i].type \notin SupportedTypes
         /\ \A j \in 1..(i - 1) : cols[j].type \in SupportedTypes
  ELSE 0

createSqlPlain(schemaName, cols) ==
  <<Kw("CREATE TABLE"), Interp(schemaName), Kw("(")>>
    \o JoinWith([i \in 1..Len(cols) |-> columnDefinition(cols[i])], Kw(", "))
    \o <<Kw(")")>>

createSql(schemaName, cols) ==
  <<Kw("CREATE TABLE IF NOT EXISTS"), Interp(schemaName), Kw("(")>>
    \o JoinWith([i \in 1..Len(cols) |-> columnDefinition(cols[i])], Kw(", "))
    \o <<Kw(")")>>

createTry(a) ==
  IF ~validateName(a.schemaName)
  THEN Throw(Msg("Invalid table/schema name: %s", a.schemaName))
  ELSE IF ~a.columns.isArray \/ Len(a.columns.items) = 0
  THEN Throw(Msg("The \"columns\" parameter must be a non-empty array.", <<>>))
  ELSE LET cols == allColumns(a.columns.items)
           bad == FirstUnsupported(cols)
       IN IF bad # 0
          THEN Throw(Msg("Unsupported column type: %s", <<cols[bad].type>>))
          ELSE Built(createSql(a.schemaName, cols), <<>>)

createFailure(a) == Failure(Msg("Failed to create %s table.", a.schemaName))

-----------------------------------------------------------------------------
(* addDataToTable *)

\* a row is an object: its entries in Object.keys order
Keys(obj) == [i \in 1..Len(obj) |-> obj[i].key]
Values(obj) == [i \in 1..Len(obj) |-> obj[i].val]

\* if (!Array.isArray(data)) data = [data]
NormalizedRows(data) == data.rows

insertPlaceholdersPerRow(nRows, nCols) ==
  JoinWith([i \in 1..nRows |->
              <<Kw("(")>>
                \o JoinWith([j \in 1..nCols |-> <<Ph(j)>>], Kw(", "))
                \o <<Kw(")")>>],
           Kw(", "))

insertPlaceholders(nRows, nCols) ==
  JoinWith([i \in 1..nRows |->
              <<Kw("(")>>
                \o JoinWith([j \in 1..nCols |-> <<Ph((i - 1) * nCols + j)>>], Kw(", "))
                \o <<Kw(")")>>],
           Kw(", "))

insertValues(rows) == Flatten([i \in 1..Len(rows) |-> Values(rows[i])])

insertSql(tableName, rows) ==
  LET columns == Keys(rows[1])
  IN <<Kw("INSERT INTO"), Interp(tableName), Kw("(")>>
       \o JoinWith([j \in 1..Len(columns) |-> <<Interp(columns[j])>>], Kw(", "))
       \o <<Kw(") VALUES")>>
       \o insertPlaceholders(Len(rows), Len(columns))
       \o <<Kw("RETURNING *")>>

insertTry(a) ==
  IF ~validateName(a.tableName)
  THEN Throw(Msg("Invalid table/schema name: %s", a.tableName))
  ELSE IF a.data.kind = "missing" \/ (a.data.kind = "array" /\ Len(a.data.rows) = 0)
  THEN Throw(Msg("No data provided.", <<>>))
  ELSE LET rows == NormalizedRows(a.data)
           values == insertValues(rows)
       IN Built(insertSql(a.tableName, rows),
                [k \in 1..Len(values) |-> Scalar(values[k])])

insertFailure == Failure(Msg("Failed to add data.", <<>>))

-----------------------------------------------------------------------------
(* searchDataInTable *)

operators == << [op |-> "$lt", sqlOp |-> "<"], [op |-> "$gt", sqlOp |-> ">"],
                [op |-> "$lte", sqlOp |-> "<="], [op |-> "$gte", sqlOp |-> ">="],
                [op |-> "$ne", sqlOp |-> "<>"] >>

\* op in value
HasOp(value, op) == \E k \in 1..Len(value.ops) : value.ops[k].op = op
OpBound(value, op) == value.ops[CHOOSE k \in 1..Len(value.ops) : value.ops[k].op = op].bound

\* index in `operators` of the first operator the value has, 0 when it has none
FirstOperatorLast(value) ==
  IF \E o \in 1..Len(operators) : HasOp(value, operators[o].op)
  THEN CHOOSE o \in 1..Len(operators) :
         /\ HasOp(value, operators[o].op)
         /\ \A q \in (o + 1)..Len(operators) : ~HasOp(value, operators[q].op)
  ELSE 0

FirstOperator(value) ==
  IF \E o \in 1..Len(operators) : HasOp(value, operators[o].op)
  THEN CHOOSE o \in 1..Len(operators) :
         /\ HasOp(value, operators[o].op)
         /\ \A q \in 1..(o - 1) : ~HasOp(value, operators[q].op)
  ELSE 0

\* typeof value === "object" && value !== null
IsObject(value) == value.kind \in {"map", "array"}

\* the forEach over Object.entries(criteria): conditions and values so far
RECURSIVE searchLoop(_, _, _, _)
searchLoop(criteria, i, conditions, values) ==
  IF i > Len(criteria) THEN [threw |-> FALSE, err |-> NoMsg,
                             conditions |-> conditions, values |-> values]
  ELSE LET key == criteria[i].key
           value == criteria[i].value
       IN IF IsObject(value)
          THEN LET o == FirstOperator(value)
               IN IF o = 0
                  THEN [threw |-> TRUE,
                        err |-> Msg("Unsupported operator in criteria for key: %s", key),
                        conditions |-> conditions, values |-> values]
                  ELSE searchLoop(criteria, i + 1,
                         Append(conditions,
                                <<Interp(key), Kw(operators[o].sqlOp), Ph(Len(values) + 1)>>),
                         Append(values, OpBound(value, operators[o].op)))
          ELSE searchLoop(criteria, i + 1,
                 Append(conditions, <<Interp(key), Kw("="), Ph(Len(values) + 1)>>),
                 Append(values, value.lit))

searchSqlAlwaysWhere(tableName, conditions) ==
  <<Kw("SELECT * FROM"), Interp(tableName), Kw("WHERE")>> \o JoinWith(conditions, Kw("AND"))

searchSql(tableName, conditions) ==
  <<Kw("SELECT * FROM"), Interp(tableName)>>
    \o (IF Len(conditions) > 0
        THEN <<Kw("WHERE")>> \o JoinWith(conditions, Kw("AND"))
        ELSE <<>>)

searchTry(a) ==
  IF ~validateName(a.tableName)
  THEN Throw(Msg("Invalid table/schema name: %s", a.tableName))
  ELSE LET r == searchLoop(a.criteria, 1, <<>>, <<>>)
       IN IF r.threw THEN Throw(r.err)
          ELSE Built(searchSql(a.tableName, r.conditions),
                     [k \in 1..Len(r.values) |-> Scalar(r.values[k])])

searchFailure == Failure(Msg("Failed to search data.", <<>>))

-----------------------------------------------------------------------------
(* removeDataFromTable *)

removeSql(tableName) ==
  <<Kw("DELETE FROM"), Interp(tableName), Kw("WHERE id = ANY("), Ph(1), Kw(") RETURNING *")>>

removeTry(a) ==
  IF ~validateName(a.tableName)
  THEN Throw(Msg("Invalid table/schema name: %s", a.tableName))
  ELSE IF a.ids.kind = "missing" \/ (a.ids.kind = "array" /\ Len(a.ids.items) = 0)
  THEN Throw(Msg("No IDs provided.", <<>>))
  ELSE Built(removeSql(a.tableName), <<Arr(a.ids.items)>>)

removeFailure == Failure(Msg("Failed to remove data.", <<>>))

-----------------------------------------------------------------------------
(* joinTables *)

INNER == <<"I","N","N","E","R">>
LEFT == <<"L","E","F","T">>
RIGHT == <<"R","I","G","H","T">>
FULL == <<"F","U","L","L">>
allowedJoins == <<INNER, LEFT, RIGHT, FULL>>

\* joinType = "INNER" when the field is undefined
joinTypeOf(a) == IF a.joinType.present THEN a.joinType.s ELSE INNER

joinTypeAllowed(jt) == \E i \in 1..Len(allowedJoins) : allowedJoins[i] = toUpperCase(jt)

onConditionMissingOnly(oc) == oc.kind = "missing"

\* !onCondition || typeof onCondition !== "string"
onConditionBad(oc) == oc.kind # "string" \/ Len(oc.s) = 0

joinNamesValidFirstOnly(a) == validateName(a.table1)

joinNamesValid(a) == validateName(a.table1) /\ validateName(a.table2)

joinSql(a) ==
  <<Kw("SELECT * FROM"), Interp(a.table1), Interp(toUpperCase(joinTypeOf(a))),
    Kw("JOIN"), Interp(a.table2), Kw("ON"), Interp(a.onCondition.s)>>

joinTry(a) ==
  IF ~joinNamesValid(a)
  THEN Throw(Msg("Invalid table/schema name: %s",
                 IF validateName(a.table1) THEN a.table2 ELSE a.table1))
  ELSE IF ~joinTypeAllowed(joinTypeOf(a))
  THEN Throw(Msg("Invalid join type: %s. Allowed: INNER, LEFT, RIGHT, FULL", joinTypeOf(a)))
  ELSE IF onConditionBad(a.onCondition)
  THEN Throw(Msg("Join condition must be provided as a valid SQL condition string.", <<>>))
  ELSE Built(joinSql(a), <<>>)

joinFailure(m) == Failure(Msg("Failed to join tables: %s", <<m.fmt>> \o m.arg))

-----------------------------------------------------------------------------
(* checkTableExists, getTableColumns *)

existsSql ==
  <<Kw("SELECT EXISTS (SELECT 1 FROM information_schema.tables WHERE table_name ="),
    Ph(1), Kw(") AS exists")>>

columnsSql ==
  <<Kw("SELECT column_name, data_type, is_nullable FROM information_schema.columns WHERE table_name ="),
    Ph(1)>>

-----------------------------------------------------------------------------
(* updateDataInTable: the statements *)

\* !id || !data || Object.keys(data).length === 0
entryInvalidIdOnly(e) == e.id = ""

entryInvalid(e) == e.id = "" \/ ~e.hasData \/ Len(e.data) = 0

\* index of the first entry the forEach throws on, 0 when it throws on none
FirstInvalidEntry(updates) ==
  IF \E i \in 1..Len(updates) : entryInvalid(updates[i])
  THEN CHOOSE i \in 1..Len(updates) :
         /\ entryInvalid(updates[i])
         /\ \A j \in 1..(i - 1) : ~entryInvalid(updates[j])
  ELSE 0

updateSql(tableName, e) ==
  <<Kw("UPDATE"), Interp(tableName), Kw("SET")>>
    \o JoinWith([i \in 1..Len(e.data) |-> <<Interp(e.data[i].key), Kw("="), Ph(i)>>],
                Kw(", "))
    \o <<Kw(", updated_at = NOW() WHERE id ="), Ph(Len(e.data) + 1), Kw("RETURNING *")>>

updateValues(e) == Values(e.data) \o <<e.id>>

updateStmt(tableName, e) ==
  LET values == updateValues(e)
  IN Stmt(updateSql(tableName, e), [k \in 1..Len(values) |-> Scalar(values[k])])

updateSendsAll(tableName, updates) ==
  [i \in 1..Len(updates) |-> updateStmt(tableName, updates[i])]

updateSendsNone(tableName, updates) == <<>>

\* queries.push(pool.query(...)) for every entry the forEach reaches
updateSends(tableName, updates) ==
  LET bad == FirstInvalidEntry(updates)
      n == IF bad = 0 THEN Len(updates) ELSE bad - 1
  IN [i \in 1..n |-> updateStmt(tableName, updates[i])]

\* !column || (!type && !constraint)
requestInvalid(r) == Len(r.column) = 0 \/ (Len(r.type) = 0 /\ Len(r.constraint) = 0)

UNIQUE == <<"U","N","I","Q","U","E">>
NOT_NULL == <<"N","O","T"," ","N","U","L","L">>
NULL == <<"N","U","L","L">>

constraintName(tableName, column) ==
  <<Interp(tableName), Kw("_"), Interp(column), Kw("_constraint")>>

typeQueries(tableName, r) ==
  IF Len(r.type) > 0
  THEN << <<Kw("ALTER TABLE"), Interp(tableName), Kw("ALTER COLUMN"), Interp(r.column),
            Kw("SET DATA TYPE"), Interp(r.type)>> >>
  ELSE <<>>

constraintSupportedAny(r) == TRUE

constraintSupported(r) == toUpperCase(r.constraint) \in {UNIQUE, NOT_NULL, NULL}

constraintQueries(tableName, r) ==
  LET c == toUpperCase(r.constraint)
  IN CASE Len(r.constraint) = 0 -> <<>>
       [] c = UNIQUE ->
            << <<Kw("ALTER TABLE"), Interp(tableName), Kw("DROP CONSTRAINT IF EXISTS")>>
                 \o constraintName(tableName, r.column),
               <<Kw("ALTER TABLE"), Interp(tableName), Kw("ADD CONSTRAINT")>>
                 \o constraintName(tableName, r.column)
                 \o <<Kw("UNIQUE ("), Interp(r.column), Kw(")")>> >>
       [] c = NOT_NULL ->
            << <<Kw("ALTER TABLE"), Interp(tableName), Kw("ALTER COLUMN"), Interp(r.column),
                 Kw("SET NOT NULL")>> >>
       [] c = NULL ->
            << <<Kw("ALTER TABLE"), Interp(tableName), Kw("ALTER COLUMN"), Interp(r.column),
                 Kw("DROP NOT NULL")>> >>
       [] OTHER -> <<>>

alterQueriesOfConstraintFirst(tableName, r) ==
  IF requestInvalid(r)
  THEN [threw |-> TRUE, queries |-> <<>>,
        err |-> Msg("Each schema change must have a \"column\" and either \"type\" or \"constraint\".", <<>>)]
  ELSE IF Len(r.constraint) > 0 /\ ~constraintSupported(r)
  THEN [threw |-> TRUE, queries |-> <<>>,
        err |-> Msg("Unsupported constraint: %s", r.constraint)]
  ELSE [threw |-> FALSE, err |-> NoMsg,
        queries |-> constraintQueries(tableName, r) \o typeQueries(tableName, r)]

\* one iteration of the for-of over schemaChanges, up to its inner loop:
\* it throws, or it has filled alterQueries
alterQueriesOf(tableName, r) ==
  IF requestInvalid(r)
  THEN [threw |-> TRUE, queries |-> <<>>,
        err |-> Msg("Each schema change must have a \"column\" and either \"type\" or \"constraint\".", <<>>)]
  ELSE IF Len(r.constraint) > 0 /\ ~constraintSupported(r)
  THEN [threw |-> TRUE, queries |-> <<>>,
        err |-> Msg("Unsupported constraint: %s", r.constraint)]
  ELSE [threw |-> FALSE, err |-> NoMsg,
        queries |-> typeQueries(tableName, r) \o constraintQueries(tableName, r)]

\* the promises pushed to `queries`: the UPDATE statements, in array order
queries(s) == SelectSeq(s, LAMBDA x : StmtKind(x) = "UPDATE")

resultRowsByCompletion(qs) ==
  LET RECURSIVE Pick(_, _)
      Pick(rank, acc) ==
        IF rank > Len(qs) THEN acc
        ELSE LET S == {i \in 1..Len(qs) :
                         Cardinality({j \in 1..Len(qs) : qs[j].at < qs[i].at}) = rank - 1}
             IN Pick(rank + 1, acc \o Flatten([k \in 1..Len(qs) |->
                                     IF k \in S THEN qs[k].rows ELSE <<>>]))
  IN Pick(1, <<>>)

\* results.flatMap(res => res.rows || [])
resultRows(qs) == Flatten([i \in 1..Len(qs) |-> qs[i].rows])

-----------------------------------------------------------------------------
(* The inputs the operations are called with *)

SeqsUpTo(S, n) == UNION {[1..k -> S] : k \in 0..n}

TableNames == { <<"t">>, <<"7","t">> }

KV(k, v) == [key |-> k, val |-> v]
Col(n, t, pk) == [name |-> n, type |-> t, primaryKey |-> pk]

ColumnSpecs ==
  { Col(<<"a">>, "text", FALSE), Col(<<"n">>, "integer", TRUE),
    Col(<<"n">>, "integer", FALSE), Col(<<"w">>, "timestamp", FALSE),
    Col(<<"f">>, "boolean", FALSE), Col(<<"x",";">>, "decimal", FALSE),
    Col(<<"b">>, "bogus", FALSE), Col(ID, "text", FALSE), Col(ID, "bogus", FALSE),
    Col(UPDATED_AT, "boolean", FALSE) }

CreateInputs ==
  { [schemaName |-> n, columns |-> [isArray |-> TRUE, items |-> cs]] :
      n \in TableNames, cs \in SeqsUpTo(ColumnSpecs, MaxCols) }
  \cup { [schemaName |-> n, columns |-> [isArray |-> FALSE, items |-> <<>>]] :
           n \in TableNames }

Rows ==
  { <<KV(<<"a">>, "v1")>>, <<KV(<<"a">>, "v2"), KV(<<"b">>, "v3")>>,
    <<KV(<<"b">>, "v4"), KV(<<"a">>, "v5")>>, <<KV(<<"x",";">>, "v6")>> }

InsertInputs ==
  { [tableName |-> n, data |-> [kind |-> "array", rows |-> rs]] :
      n \in TableNames, rs \in SeqsUpTo(Rows, MaxRows) }
  \cup { [tableName |-> n, data |-> [kind |-> "object", rows |-> <<r>>]] :
           n \in TableNames, r \in Rows }
  \cup { [tableName |-> n, data |-> [kind |-> "missing", rows |-> <<>>]] :
           n \in TableNames }

OpB(o, b) == [op |-> o, bound |-> b]
ScalarValue(x) == [kind |-> "scalar", lit |-> x, ops |-> <<>>]
MapValue(ops) == [kind |-> "map", lit |-> "", ops |-> ops]
ArrayValue == [kind |-> "array", lit |-> "", ops |-> <<>>]
Crit(k, v) == [key |-> k, value |-> v]

CriteriaEntries ==
  { Crit(<<"a">>, ScalarValue("v1")),
    Crit(<<"b">>, MapValue(<<OpB("$gt", "v2")>>)),
    Crit(<<"c">>, MapValue(<<OpB("$ne", "v3"), OpB("$lt", "v4")>>)),
    Crit(<<"d">>, MapValue(<<OpB("$in", "v5")>>)),
    Crit(ID, ArrayValue),
    Crit(<<"x",";">>, ScalarValue("v6")) }

SearchInputs ==
  { [tableName |-> n, criteria |-> c] :
      n \in TableNames, c \in SeqsUpTo(CriteriaEntries, MaxCriteria) }

RemoveInputs ==
  { [tableName |-> n, ids |-> i] :
      n \in TableNames,
      i \in { [kind |-> "missing", items |-> <<>>], [kind |-> "array", items |-> <<>>],
              [kind |-> "array", items |-> <<"1">>],
              [kind |-> "array", items |-> <<"1", "2">>],
              [kind |-> "scalar", items |-> <<"1">>] } }

JoinInputs ==
  { [table1 |-> n1, table2 |-> n2, joinType |-> jt, onCondition |-> oc] :
      n1 \in TableNames, n2 \in TableNames,
      jt \in { [present |-> FALSE, s |-> <<>>], [present |-> TRUE, s |-> <<"l","e","f","t">>],
               [present |-> TRUE, s |-> FULL],
               [present |-> TRUE, s |-> <<"b","o","g","u","s">>] },
      oc \in { [kind |-> "missing", s |-> <<>>], [kind |-> "string", s |-> <<>>],
               [kind |-> "string", s |-> <<"a","=","b">>], [kind |-> "other", s |-> <<>>] } }

GetColumnsInputs == { [tableName |-> n] : n \in TableNames }

Entry(id, data) == [id |-> id, hasData |-> TRUE, data |-> data]

UpdateEntries ==
  { Entry("1", <<KV(<<"a">>, "v1")>>),
    Entry("2", <<KV(<<"a">>, "v2"), KV(<<"x",";">>, "v3")>>),
    Entry("", <<KV(<<"a">>, "v4")>>),
    Entry("3", <<>>) }

Req(c, t, k) == [column |-> c, type |-> t, constraint |-> k]

SchemaRequests ==
  { Req(<<"c">>, <<"T">>, <<"U","n","i","q","u","e">>),
    Req(<<"c">>, <<>>, <<"n","o","t"," ","n","u","l","l">>),
    Req(<<"c">>, <<"T">>, <<"b","o","g","u","s">>),
    Req(<<>>, <<"T">>, <<>>),
    Req(<<"c",";">>, <<"T","(">>, NULL) }

\* a request carries at most MaxBatch entries, updates and schema changes together
UpdateInputs ==
  { a \in { [tableName |-> n, updates |-> u, schemaChanges |-> sc] :
              n \in TableNames,
              u \in SeqsUpTo(UpdateEntries, MaxUpdates),
              sc \in SeqsUpTo(SchemaRequests, MaxSchema) } :
      Len(a.updates) + Len(a.schemaChanges) <= MaxBatch }

\* an input object, or none (the caller passed undefined)
Call(op, a) == [op |-> op, noArg |-> FALSE, arg |-> a]
CallNoArg(op) == [op |-> op, noArg |-> TRUE, arg |-> <<>>]

-----------------------------------------------------------------------------
(* The database: pool.query settles a statement in flight *)

IdStrings == <<"1", "2", "3", "4", "5", "6">>

\* rows an UPDATE, DELETE or SELECT can come back with (the stored rows they
\* touch are not followed)
DbRows(s) ==
  CASE StmtKind(s) = "UPDATE" ->
         { <<>>, << [id |-> s.params[Len(s.params)].items[1]] >> }
    [] StmtKind(s) = "DELETE FROM" ->
         { [i \in 1..Len(s.params[1].items) |-> [id |-> s.params[1].items[i]]] }
    [] OTHER -> { <<>> }

\* a stored table: the column definitions it was created with, its rows, and the
\* next value of the SERIAL sequence behind its id column
Table(columns, rows, nextId) == [columns |-> columns, rows |-> rows, nextId |-> nextId]

DbOutcome(st, error, rows, d) == [st |-> st, error |-> error, rows |-> rows, db |-> d]

\* the table a CREATE or INSERT statement names, and what the statement carries
StmtTable(s) == s.sql[2].v
StmtColumnDefs(s) == SubSeq(s.sql, 4, Len(s.sql) - 1)
StmtPlaceholders(s) == SelectSeq(s.sql, LAMBDA x : x.t = "ph")
StmtColumnList(s) ==
  LET close == CHOOSE k \in 1..Len(s.sql) : s.sql[k] = Kw(") VALUES")
  IN SelectSeq(SubSeq(s.sql, 4, close - 1), LAMBDA x : x.t = "interp")
StmtGroups(s) == Cardinality({k \in 1..Len(s.sql) : s.sql[k] = Kw("(")}) - 1

\* the rows INSERT ... RETURNING * stores and returns: one per VALUES group, the
\* j-th expression of a group going to the j-th listed column, ids from the sequence
InsertedRows(t, s) ==
  LET cols == StmtColumnList(s)
      phs == StmtPlaceholders(s)
  IN [i \in 1..StmtGroups(s) |->
        [id |-> IdStrings[t.nextId + i - 1],
         cells |-> [j \in 1..Len(cols) |->
                      [key |-> cols[j].v,
                       val |-> s.params[phs[(i - 1) * Len(cols) + j].n].items[1]]]]]

\* what the store can answer to a statement, and the database it leaves.  Any
\* statement can fail; CREATE TABLE IF NOT EXISTS leaves an existing table alone
\* (a plain CREATE TABLE fails on one); INSERT needs the table and as many
\* parameters as the statement has placeholders.
DbOutcomes(d, s) ==
  { DbOutcome("fail", "error", <<>>, d) } \cup
  CASE StmtKind(s) = "CREATE TABLE IF NOT EXISTS" ->
         IF StmtTable(s) \in DOMAIN d
         THEN { DbOutcome("ok", "", <<>>, d) }
         ELSE { DbOutcome("ok", "", <<>>,
                  [n \in DOMAIN d \cup {StmtTable(s)} |->
                     IF n = StmtTable(s) THEN Table(StmtColumnDefs(s), <<>>, 1)
                     ELSE d[n]]) }
    [] StmtKind(s) = "CREATE TABLE" ->
         IF StmtTable(s) \in DOMAIN d
         THEN { DbOutcome("fail", "duplicate_table", <<>>, d) }
         ELSE { DbOutcome("ok", "", <<>>,
                  [n \in DOMAIN d \cup {StmtTable(s)} |->
                     IF n = StmtTable(s) THEN Table(StmtColumnDefs(s), <<>>, 1)
                     ELSE d[n]]) }
    [] StmtKind(s) = "INSERT INTO" ->
         IF StmtTable(s) \notin DOMAIN d
         THEN { DbOutcome("fail", "undefined_table", <<>>, d) }
         ELSE IF Len(s.params) # Len(StmtPlaceholders(s))
         THEN { DbOutcome("fail", "bind", <<>>, d) }
         ELSE LET t == d[StmtTable(s)]
                  rows == InsertedRows(t, s)
              IN { DbOutcome("ok", "", rows,
                     [d EXCEPT ![StmtTable(s)] =
                        Table(t.columns, t.rows \o rows, t.nextId + Len(rows))]) }
    [] OTHER -> { DbOutcome("ok", "", rows, d) : rows \in DbRows(s) }

\* rank of a settling UPDATE among the promises of `queries` (0 for other statements)
Rank(s, i) ==
  IF StmtKind(s[i]) = "UPDATE"
  THEN Cardinality({j \in 1..Len(s) : StmtKind(s[j]) = "UPDATE" /\ Settled(s[j])}) + 1
  ELSE 0

\* the awaited promise is settled: the continuation runs before any other callback
ContinuationReady ==
  \/ /\ pc \in {"await", "awaitExists", "awaitAlter"}
     /\ Settled(sent[Len(sent)])
  \/ /\ pc = "awaitAll"
     /\ \/ \A i \in 1..Len(queries(sent)) : queries(sent)[i].st = "ok"
        \/ \E i \in 1..Len(queries(sent)) : queries(sent)[i].st = "fail"

DbComplete ==
  /\ pc # "idle"
  /\ ~ContinuationReady
  /\ \E i \in 1..Len(sent) :
       /\ sent[i].st = "pending"
       /\ \E o \in DbOutcomes(db, sent[i]), ex \in BOOLEAN :
            /\ ex = (o.st = "ok") \/ (o.st = "ok" /\ sent[i].sql = existsSql)
            /\ sent' = [sent EXCEPT ![i].st = o.st, ![i].rows = o.rows,
                                    ![i].exists = ex, ![i].error = o.error,
                                    ![i].at = Rank(sent, i)]
            /\ db' = o.db
  /\ UNCHANGED <<pc, call, env, si, alterQueries, ncalls, chat>>

-----------------------------------------------------------------------------
(* One-statement operations: entry up to the await, then the return *)

\* the try block up to `await pool.query(...)`, and the catch block when it throws
Enter(op, a, r, failure) ==
  /\ pc = "idle"
  /\ call' = Call(op, a)
  /\ IF r.threw
     THEN /\ pc' = "returned"
          /\ env' = failure
          /\ sent' = sent
     ELSE /\ pc' = "await"
          /\ env' = NoEnv
          /\ sent' = Append(sent, Stmt(r.sql, r.params))
  /\ UNCHANGED <<si, alterQueries, db, ncalls, chat>>

\* called without an input object: destructuring the parameter throws before the try
EnterNoArg ==
  /\ pc = "idle"
  /\ \E op \in {"createDynamicTable", "getTableColumns", "addDataToTable",
                "updateDataInTable", "searchDataInTable", "removeDataFromTable",
                "joinTables"} :
       call' = CallNoArg(op)
  /\ pc' = "returned"
  /\ env' = Rejected(TypeErrorText)
  /\ UNCHANGED <<sent, si, alterQueries, db, ncalls, chat>>

Return(op, onOk, onFail) ==
  /\ pc = "await"
  /\ call.op = op
  /\ Settled(sent[Len(sent)])
  /\ pc' = "returned"
  /\ env' = IF sent[Len(sent)].st = "ok" THEN onOk ELSE onFail
  /\ UNCHANGED <<call, sent, si, alterQueries, db, ncalls, chat>>

createDynamicTable ==
  \E a \in CreateInputs : Enter("createDynamicTable", a, createTry(a), createFailure(a))

createDynamicTableReturn ==
  Return("createDynamicTable",
         SuccessMsg(Msg("%s table created successfully.", call.arg.schemaName)),
         createFailure(call.arg))

addDataToTable ==
  \E a \in InsertInputs : Enter("addDataToTable", a, insertTry(a), insertFailure)

addDataToTableReturn ==
  Return("addDataToTable", SuccessData(sent[Len(sent)].rows), insertFailure)

searchDataInTable ==
  \E a \in SearchInputs : Enter("searchDataInTable", a, searchTry(a), searchFailure)

searchDataInTableReturn ==
  Return("searchDataInTable", SuccessData(sent[Len(sent)].rows), searchFailure)

removeDataFromTable ==
  \E a \in RemoveInputs : Enter("removeDataFromTable", a, removeTry(a), removeFailure)

removeDataFromTableReturn ==
  Return("removeDataFromTable", SuccessData(sent[Len(sent)].rows), removeFailure)

joinTables ==
  \E a \in JoinInputs : Enter("joinTables", a, joinTry(a), joinFailure(joinTry(a).err))

joinTablesReturn ==
  Return("joinTables", SuccessData(sent[Len(sent)].rows), joinFailure(StoreErrorText))

-----------------------------------------------------------------------------
(* getTableColumns *)

getTableColumns ==
  /\ pc = "idle"
  /\ \E a \in GetColumnsInputs :
       /\ call' = Call("getTableColumns", a)
       /\ sent' = Append(sent, Stmt(existsSql, <<Scalar(a.tableName)>>))
  /\ pc' = "awaitExists"
  /\ env' = NoEnv
  /\ UNCHANGED <<si, alterQueries, db, ncalls, chat>>

\* checkTableExists returns or rethrows; getTableColumns goes on, or returns
getTableColumnsExists ==
  /\ pc = "awaitExists"
  /\ Settled(sent[Len(sent)])
  /\ LET q == sent[Len(sent)]
     IN IF q.st = "fail"
        THEN /\ pc' = "returned"
             /\ env' = Failure(Msg("Error fetching columns: Error checking table existence: %s",
                                   <<StoreErrorText.fmt>>))
             /\ sent' = sent
        ELSE IF ~q.exists
        THEN /\ pc' = "returned"
             /\ env' = Failure(Msg("Table '%s' does not exist.", call.arg.tableName))
             /\ sent' = sent
        ELSE /\ pc' = "await"
             /\ env' = NoEnv
             /\ sent' = Append(sent, Stmt(columnsSql, <<Scalar(call.arg.tableName)>>))
  /\ UNCHANGED <<call, si, alterQueries, db, ncalls, chat>>

getTableColumnsReturn ==
  Return("getTableColumns", SuccessColumns(sent[Len(sent)].rows),
         Failure(Msg("Error fetching columns: %s", <<StoreErrorText.fmt>>)))

-----------------------------------------------------------------------------
(* updateDataInTable *)

\* the for-of over schemaChanges from request k on, s being the statements sent so
\* far: throw, send the request's first statement and await it, or reach Promise.all
SchemaFrom(a, k, s) ==
  IF k > Len(a.schemaChanges)
  THEN /\ pc' = "awaitAll"
       /\ env' = NoEnv
       /\ sent' = s
       /\ si' = k
       /\ alterQueries' = <<>>
  ELSE LET r == alterQueriesOf(a.tableName, a.schemaChanges[k])
       IN IF r.threw
          THEN /\ pc' = "returned"
               /\ env' = Failure(r.err)
               /\ sent' = s
               /\ si' = k
               /\ alterQueries' = <<>>
          ELSE /\ pc' = "awaitAlter"
               /\ env' = NoEnv
               /\ sent' = Append(s, Stmt(r.queries[1], <<>>))
               /\ si' = k
               /\ alterQueries' = Tail(r.queries)

updateDataInTable ==
  /\ pc = "idle"
  /\ \E a \in UpdateInputs :
       /\ call' = Call("updateDataInTable", a)
       /\ IF ~validateName(a.tableName)
          THEN /\ pc' = "returned"
               /\ env' = Failure(Msg("Invalid table/schema name: %s", a.tableName))
               /\ UNCHANGED <<sent, si, alterQueries, db, ncalls, chat>>
          ELSE IF Len(a.updates) = 0 /\ Len(a.schemaChanges) = 0
          THEN /\ pc' = "returned"
               /\ env' = Failure(Msg("Either 'updates' or 'schemaChanges' must be provided.", <<>>))
               /\ UNCHANGED <<sent, si, alterQueries, db, ncalls, chat>>
          ELSE IF FirstInvalidEntry(a.updates) # 0
          THEN /\ pc' = "returned"
               /\ env' = Failure(Msg("Each update must have an \"id\" and non-empty \"data\".", <<>>))
               /\ sent' = sent \o updateSends(a.tableName, a.updates)
               /\ UNCHANGED <<si, alterQueries, db, ncalls, chat>>
          ELSE SchemaFrom(a, 1, sent \o updateSends(a.tableName, a.updates))
  /\ UNCHANGED <<db, ncalls, chat>>

\* `await pool.query(query)` of the inner loop has settled
updateAlterSettled ==
  /\ pc = "awaitAlter"
  /\ Settled(sent[Len(sent)])
  /\ IF sent[Len(sent)].st = "fail"
     THEN /\ pc' = "returned"
          /\ env' = Failure(StoreErrorText)
          /\ UNCHANGED <<sent, si, alterQueries, db, ncalls, chat>>
     ELSE IF Len(alterQueries) > 0
     THEN /\ pc' = "awaitAlter"
          /\ env' = NoEnv
          /\ sent' = Append(sent, Stmt(Head(alterQueries), <<>>))
          /\ alterQueries' = Tail(alterQueries)
          /\ si' = si
     ELSE SchemaFrom(call.arg, si + 1, sent)
  /\ UNCHANGED <<call, db, ncalls, chat>>

\* `await Promise.all(queries)` has settled
updateAllSettled ==
  /\ pc = "awaitAll"
  /\ LET qs == queries(sent)
     IN \/ /\ \E i \in 1..Len(qs) : qs[i].st = "fail"
           /\ env' = Failure(StoreErrorText)
        \/ /\ \A i \in 1..Len(qs) : qs[i].st = "ok"
           /\ env' = SuccessData(resultRows(qs))
  /\ pc' = "returned"
  /\ UNCHANGED <<call, sent, si, alterQueries, db, ncalls, chat>>

-----------------------------------------------------------------------------
(* The validator on its own *)

Threw(m) == [kind |-> "threw", success |-> FALSE, hasMessage |-> TRUE,
             message |-> m, field |-> "", data |-> <<>>]
Returned == [kind |-> "void", success |-> FALSE, hasMessage |-> FALSE,
             message |-> NoMsg, field |-> "", data |-> <<>>]

validateNameCall ==
  /\ pc = "idle"
  /\ call.op = "validateName"
  /\ pc' = "returned"
  /\ env' = IF validateName(call.arg)
            THEN Returned
            ELSE Threw(Msg("Invalid table/schema name: %s", call.arg))
  /\ UNCHANGED <<call, sent, si, alterQueries, db, ncalls, chat>>

-----------------------------------------------------------------------------
(* Specifications *)

\* no /chat request is being handled
NoChat == [pc |-> "none", messages |-> <<>>, responses |-> <<>>, ran |-> <<>>,
           last |-> [kind |-> "none", type |-> "", function |-> ""]]

\* the table the calls work on exists and holds one row
StoredTable ==
  Table(StmtColumnDefs(Stmt(createSql(<<"t">>, allColumns(<<[name |-> <<"a">>, type |-> "text",
                                                                primaryKey |-> FALSE]>>)), <<>>)),
        <<[id |-> "1", cells |-> <<[key |-> <<"a">>, val |-> "v0"]>>]>>, 2)

Init ==
  /\ pc = "idle"
  /\ call = [op |-> "none", noArg |-> FALSE, arg |-> <<>>]
  /\ sent = <<>>
  /\ env = NoEnv
  /\ si = 0
  /\ alterQueries = <<>>
  /\ db = [n \in {<<"t">>} |-> StoredTable]
  /\ ncalls = 0
  /\ chat = NoChat

Next ==
  \/ EnterNoArg
  \/ createDynamicTable
  \/ createDynamicTableReturn
  \/ getTableColumns
  \/ getTableColumnsExists
  \/ getTableColumnsReturn
  \/ addDataToTable
  \/ addDataToTableReturn
  \/ updateDataInTable
  \/ updateAlterSettled
  \/ updateAllSettled
  \/ searchDataInTable
  \/ searchDataInTableReturn
  \/ removeDataFromTable
  \/ removeDataFromTableReturn
  \/ joinTables
  \/ joinTablesReturn
  \/ DbComplete

Spec == Init /\ [][Next]_vars

\* every string up to MaxNameLen over the alphabet is given to validateName
InitValidate ==
  /\ pc = "idle"
  /\ call \in {Call("validateName", n) : n \in Strings(MaxNameLen)}
  /\ sent = <<>>
  /\ env = NoEnv
  /\ si = 0
  /\ alterQueries = <<>>
  /\ db = [n \in {<<"t">>} |-> StoredTable]
  /\ ncalls = 0
  /\ chat = NoChat

NextValidate == validateNameCall

SpecValidate == InitValidate /\ [][NextValidate]_vars

\* createDynamicTable called again after it returned: with the same input, or with
\* other columns for the same name
AgainInputs(a) ==
  { a, [a EXCEPT !.columns = [isArray |-> TRUE,
                               items |-> <<Col(<<"n">>, "integer", FALSE)>>]] }

createDynamicTableAgain ==
  /\ pc = "returned"
  /\ call.op = "createDynamicTable"
  /\ ~call.noArg
  /\ ncalls + 1 < MaxCalls
  /\ ncalls' = ncalls + 1
  /\ \E a \in AgainInputs(call.arg) :
       LET r == createTry(a)
       IN /\ call' = Call("createDynamicTable", a)
          /\ IF r.threw
             THEN /\ pc' = "returned"
                  /\ env' = createFailure(a)
                  /\ sent' = <<>>
             ELSE /\ pc' = "await"
                  /\ env' = NoEnv
                  /\ sent' = <<Stmt(r.sql, r.params)>>
  /\ UNCHANGED <<si, alterQueries, db, chat>>

\* createDynamicTable on a database without the table, or with it already stored
InitCreate ==
  /\ pc = "idle"
  /\ call = [op |-> "none", noArg |-> FALSE, arg |-> <<>>]
  /\ sent = <<>>
  /\ env = NoEnv
  /\ si = 0
  /\ alterQueries = <<>>
  /\ db \in { [n \in {} |-> StoredTable], [n \in {<<"t">>} |-> StoredTable] }
  /\ ncalls = 0
  /\ chat = NoChat

NextCreate ==
  \/ createDynamicTable
  \/ createDynamicTableReturn
  \/ createDynamicTableAgain
  \/ DbComplete

SpecCreate == InitCreate /\ [][NextCreate]_vars

-----------------------------------------------------------------------------
(* The /chat handler of index.js *)

\* the tool table: an object literal with seven own properties
tools == {"createDynamicTable", "getTableColumns", "addDataToTable", "updateDataInTable",
          "searchDataInTable", "removeDataFromTable", "joinTables"}

\* what the model's completion can be: the call rejects, the content is no JSON,
\* the content is the JSON null, or it is a JSON object with or without a type
\* and a function
Reply(kind, type, function) == [kind |-> kind, type |-> type, function |-> function]

ModelReplies ==
  { Reply("rejects", "", ""), Reply("badJson", "", ""), Reply("null", "", "") }
  \cup { Reply("json", t, "") : t \in {"output", "plan", "bye", ""} }
  \cup { Reply("json", "action", f) :
           f \in {"createDynamicTable", "searchDataInTable", "dropTable",
                  "constructor", "__proto__", ""} }

\* tools[result.function]: an own property, or one the object literal inherits from
\* Object.prototype (a function such as constructor, or the prototype object
\* itself), or undefined
fn(function) ==
  CASE function \in tools -> "tool"
    [] function \in {"constructor", "toString"} -> "inherited function"
    [] function = "__proto__" -> "object"
    [] OTHER -> "undefined"

\* res.json / res.status(code).json: the response is sent and the handler returns
Respond(code, reply) ==
  chat' = [chat EXCEPT !.pc = "done", !.responses = Append(@, code), !.last = reply]

ChatRest == <<pc, call, sent, env, si, alterQueries, db, ncalls>>

\* POST /chat arrives: the system prompt and the user message, then the first
\* completion is requested
chatRequest ==
  /\ chat.pc = "none"
  /\ chat' = [chat EXCEPT !.pc = "model", !.messages = <<"system", "user">>]
  /\ UNCHANGED ChatRest

\* `await client.chat.completions.create(...)` settles: the loop body up to its next
\* await, its return, or its catch
chatCompletion ==
  /\ chat.pc = "model"
  /\ Len(chat.messages) < MaxMessages
  /\ \E r \in ModelReplies :
       IF r.kind \in {"rejects", "badJson"}
       THEN Respond(500, r)
       ELSE LET pushed == [chat EXCEPT !.messages = Append(@, "assistant"), !.last = r]
            IN IF r.kind = "null"
               THEN chat' = [pushed EXCEPT !.pc = "done", !.responses = Append(@, 500)]
               ELSE IF r.type = "output"
               THEN chat' = [pushed EXCEPT !.pc = "done", !.responses = Append(@, 200)]
               ELSE IF r.type = "action"
               THEN CASE fn(r.function) = "undefined" ->
                           chat' = [pushed EXCEPT !.pc = "done", !.responses = Append(@, 400)]
                      [] fn(r.function) = "object" ->
                           chat' = [pushed EXCEPT !.pc = "done", !.responses = Append(@, 500)]
                      [] OTHER ->
                           chat' = [pushed EXCEPT !.pc = "tool", !.ran = Append(@, r.function)]
               ELSE chat' = pushed
  /\ UNCHANGED ChatRest

\* `await fn(result.input)` settles: the observation is pushed and the loop goes
\* round, or the rejection is caught
chatObservation ==
  /\ chat.pc = "tool"
  /\ \/ chat' = [chat EXCEPT !.pc = "model", !.messages = Append(@, "developer")]
     \/ /\ fn(chat.last.function) = "tool"
        /\ chat' = [chat EXCEPT !.pc = "done", !.responses = Append(@, 500),
                                !.last = Reply("tool rejects", "action", chat.last.function)]
  /\ UNCHANGED ChatRest

InitChat ==
  /\ pc = "idle"
  /\ call = [op |-> "none", noArg |-> FALSE, arg |-> <<>>]
  /\ sent = <<>>
  /\ env = NoEnv
  /\ si = 0
  /\ alterQueries = <<>>
  /\ db = [n \in {<<"t">>} |-> StoredTable]
  /\ ncalls = 0
  /\ chat = NoChat

NextChat ==
  \/ chatRequest
  \/ chatCompletion
  \/ chatObservation

\* the handler takes its next step whenever it can
SpecChat == InitChat /\ [][NextChat]_vars /\ WF_vars(NextChat)

-----------------------------------------------------------------------------
(* Notions the properties are stated with *)

IdentStart == Lower \cup Upper \cup {"_"}
IdentPart == Lower \cup Upper \cup Digit \cup {"_"}

\* the identifier grammar ^[A-Za-z_][A-Za-z0-9_]*$ as a predicate
MatchesGrammar(n) ==
  /\ Len(n) >= 1
  /\ n[1] \in IdentStart
  /\ \A i \in 2..Len(n) : n[i] \in IdentPart

\* the identifier grammar as a language: the identifiers of length k over the alphabet
RECURSIVE IdentifiersOfLen(_)
IdentifiersOfLen(k) ==
  IF k = 1 THEN {<<c>> : c \in IdentStart \cap Alphabet}
  ELSE {Append(s, c) : s \in IdentifiersOfLen(k - 1), c \in IdentPart \cap Alphabet}

Identifiers(n) == UNION {IdentifiersOfLen(k) : k \in 1..n}

Operations == {"createDynamicTable", "getTableColumns", "addDataToTable",
               "updateDataInTable", "searchDataInTable", "removeDataFromTable",
               "joinTables"}

\* a call of an exported operation with an input object is under way or has returned
InCall(ops) == call.op \in ops /\ ~call.noArg

\* the table/schema names the call was given
NamesOf(c) ==
  CASE c.op = "createDynamicTable" -> {c.arg.schemaName}
    [] c.op = "joinTables" -> {c.arg.table1, c.arg.table2}
    [] OTHER -> {c.arg.tableName}

BadName(c) == \E n \in NamesOf(c) : ~MatchesGrammar(n)

FailureEnvelope == env.kind = "envelope" /\ ~env.success /\ env.hasMessage

InterpTokens(sql) == SelectSeq(sql, LAMBDA x : x.t = "interp")

-----------------------------------------------------------------------------
(* C1 *)

\* C1: validateName returns normally exactly for the strings of the identifier
\* grammar ^[A-Za-z_][A-Za-z0-9_]*$, and throws for every other string (the empty
\* string, a digit first, punctuation, whitespace).
C1_ValidatorAcceptsExactlyGrammar ==
  (pc = "returned" /\ call.op = "validateName") =>
    /\ env.kind \in {"void", "threw"}
    /\ (env.kind = "void") <=> (call.arg \in Identifiers(MaxNameLen))

C1_Witness ==
  /\ pc = "returned"
  /\ call.op = "validateName"
  /\ call.arg = <<"7", "a">>
  /\ env.kind = "threw"

-----------------------------------------------------------------------------
(* C2 *)

\* C2 as stated: each of the seven operations sends no statement when one of its
\* table/schema names does not match the identifier grammar.
C2_SevenOperationsValidate ==
  (InCall(Operations) /\ BadName(call)) => sent = <<>>

\* C2 as amended: createDynamicTable, addDataToTable, updateDataInTable,
\* searchDataInTable, removeDataFromTable and joinTables send no statement when a
\* name does not match the grammar; getTableColumns does not validate: it sends its
\* catalogue queries whatever the name, with the name as the one bound parameter and
\* never in the SQL text.
C2_SixOperationsValidate ==
  /\ (InCall(Operations \ {"getTableColumns"}) /\ BadName(call)) => sent = <<>>
  /\ InCall({"getTableColumns"}) =>
       /\ Len(sent) >= 1
       /\ \A i \in 1..Len(sent) :
            /\ InterpTokens(sent[i].sql) = <<>>
            /\ sent[i].params = <<Scalar(call.arg.tableName)>>

C2_Witness ==
  /\ pc = "returned"
  /\ InCall({"joinTables"})
  /\ MatchesGrammar(call.arg.table1)
  /\ ~MatchesGrammar(call.arg.table2)
  /\ joinTypeAllowed(joinTypeOf(call.arg))
  /\ ~onConditionBad(call.arg.onCondition)
  /\ sent = <<>>
  /\ FailureEnvelope

-----------------------------------------------------------------------------
(* C3 *)

\* C3: every caller-supplied string interpolated into the text of a statement
\* matches the identifier grammar, except the join predicate onCondition (the last
\* interpolation of the join statement).
C3_InterpolatedStringsMatchGrammar ==
  InCall(Operations) =>
    \A i \in 1..Len(sent) : \A k \in 1..Len(sent[i].sql) :
      sent[i].sql[k].t = "interp" =>
        \/ MatchesGrammar(sent[i].sql[k].v)
        \/ call.op = "joinTables" /\ k = Len(sent[i].sql)

-----------------------------------------------------------------------------
(* C4 *)

Range(q) == {q[i] : i \in 1..Len(q)}
BagOfSeq(q) == [x \in Range(q) |-> Cardinality({i \in 1..Len(q) : q[i] = x})]

\* the literals found in the positional parameters of a statement
ParamItems(s) == Flatten([k \in 1..Len(s.params) |-> s.params[k].items])

\* a change of literal values: the literals of S become another literal
Renamings(lits) == {[x \in lits |-> IF x \in S THEN "other" ELSE x] : S \in SUBSET lits}

RenameObj(obj, f) == [j \in 1..Len(obj) |-> KV(obj[j].key, f[obj[j].val])]

RenameValue(value, f) ==
  [kind |-> value.kind,
   lit |-> IF value.kind = "scalar" THEN f[value.lit] ELSE value.lit,
   ops |-> [k \in 1..Len(value.ops) |-> OpB(value.ops[k].op, f[value.ops[k].bound])]]

RenameCriteria(criteria, f) ==
  [i \in 1..Len(criteria) |-> Crit(criteria[i].key, RenameValue(criteria[i].value, f))]

\* every bound a criteria value carries
AllBounds(value) ==
  IF value.kind = "scalar" THEN <<value.lit>>
  ELSE [k \in 1..Len(value.ops) |-> value.ops[k].bound]

\* the bound of the first operator, in the order $lt, $gt, $lte, $gte, $ne, that the
\* mapping contains
RECURSIVE FirstBoundFrom(_, _)
FirstBoundFrom(value, order) ==
  IF order = <<>> THEN <<>>
  ELSE LET hit == {k \in 1..Len(value.ops) : value.ops[k].op = Head(order)}
       IN IF hit # {} THEN <<value.ops[CHOOSE k \in hit : TRUE].bound>>
          ELSE FirstBoundFrom(value, Tail(order))

UsedBound(value) ==
  IF value.kind = "scalar" THEN <<value.lit>>
  ELSE FirstBoundFrom(value, <<"$lt", "$gt", "$lte", "$gte", "$ne">>)

\* insert, update, remove: the SQL text of statement i is the text the same call
\* builds after any change of its literal values, and the parameters are the
\* call's literals, each once
TextAndParamsInsert ==
  InCall({"addDataToTable"}) =>
    \A i \in 1..Len(sent) :
      LET rows == call.arg.data.rows
          lits == Flatten([r \in 1..Len(rows) |-> Values(rows[r])])
      IN /\ \A f \in Renamings(Range(lits)) :
              insertSql(call.arg.tableName,
                        [r \in 1..Len(rows) |-> RenameObj(rows[r], f)]) = sent[i].sql
         /\ BagOfSeq(ParamItems(sent[i])) = BagOfSeq(lits)

TextAndParamsUpdate ==
  InCall({"updateDataInTable"}) =>
    \A i \in 1..Len(sent) :
      StmtKind(sent[i]) = "UPDATE" =>
        LET e == call.arg.updates[i]
            lits == Values(e.data) \o <<e.id>>
        IN /\ \A f \in Renamings(Range(lits)) :
                updateSql(call.arg.tableName,
                          [id |-> f[e.id], hasData |-> e.hasData,
                           data |-> RenameObj(e.data, f)]) = sent[i].sql
           /\ BagOfSeq(ParamItems(sent[i])) = BagOfSeq(lits)

TextAndParamsRemove ==
  InCall({"removeDataFromTable"}) =>
    \A i \in 1..Len(sent) :
      /\ \A k \in 1..Len(sent[i].sql) : sent[i].sql[k].t = "interp" =>
              sent[i].sql[k].v = call.arg.tableName
      /\ BagOfSeq(ParamItems(sent[i])) = BagOfSeq(call.arg.ids.items)

TextSearch ==
  InCall({"searchDataInTable"}) =>
    \A i \in 1..Len(sent) :
      LET crit == call.arg.criteria
          lits == Flatten([c \in 1..Len(crit) |-> AllBounds(crit[c].value)])
      IN \A f \in Renamings(Range(lits)) :
           searchTry([tableName |-> call.arg.tableName,
                      criteria |-> RenameCriteria(crit, f)]).sql = sent[i].sql

\* C4 as stated: in the statements of insert, update, remove and search the SQL text
\* does not depend on the caller's literal values, and every literal of the call (row
\* value, update value, id, criteria bound) is passed exactly once as a parameter.
C4_EveryLiteralBoundOnce ==
  /\ TextAndParamsInsert
  /\ TextAndParamsUpdate
  /\ TextAndParamsRemove
  /\ TextSearch
  /\ InCall({"searchDataInTable"}) =>
       \A i \in 1..Len(sent) :
         BagOfSeq(ParamItems(sent[i])) =
           BagOfSeq(Flatten([c \in 1..Len(call.arg.criteria) |->
                               AllBounds(call.arg.criteria[c].value)]))

\* C4 as amended: the same, except that of a criteria mapping only the bound of the
\* first operator it contains, in the order $lt, $gt, $lte, $gte, $ne, is passed
\* (once); the bounds of its other operators are passed nowhere.
C4_UsedLiteralsBoundOnce ==
  /\ TextAndParamsInsert
  /\ TextAndParamsUpdate
  /\ TextAndParamsRemove
  /\ TextSearch
  /\ InCall({"searchDataInTable"}) =>
       \A i \in 1..Len(sent) :
         ParamItems(sent[i]) =
           Flatten([c \in 1..Len(call.arg.criteria) |->
                      UsedBound(call.arg.criteria[c].value)])

C4_Witness ==
  /\ InCall({"searchDataInTable"})
  /\ Len(sent) = 1
  /\ \E c \in 1..Len(call.arg.criteria) : Len(call.arg.criteria[c].value.ops) = 2
  /\ \E c \in 1..Len(call.arg.criteria) : call.arg.criteria[c].value.kind = "scalar"
  /\ Len(sent[1].params) = 2

-----------------------------------------------------------------------------
(* C5 *)

\* C5: each of the seven operations completes by returning an envelope with a
\* boolean success (and a message when success is false); none rejects to its
\* caller, whatever the input, a missing input object included.
C5_AlwaysAnEnvelope ==
  (pc = "returned" /\ call.op \in Operations) =>
    /\ env.kind = "envelope"
    /\ ~env.success => env.hasMessage

-----------------------------------------------------------------------------
(* C6, C7, C8: updateDataInTable *)

InvalidUpdateText == "Each update must have an \"id\" and non-empty \"data\"."
InvalidSchemaChangeText ==
  "Each schema change must have a \"column\" and either \"type\" or \"constraint\"."
UnsupportedConstraintText == "Unsupported constraint: %s"

Least(S) == CHOOSE x \in S : \A y \in S : x <= y

\* an entry without a truthy id or with empty data
InvalidEntry(e) == e.id = "" \/ ~e.hasData \/ e.data = <<>>
InvalidEntries(a) == {i \in 1..Len(a.updates) : InvalidEntry(a.updates[i])}

InvalidRequest(r) == r.column = <<>> \/ (r.type = <<>> /\ r.constraint = <<>>)
UnsupportedConstraint(r) ==
  r.constraint # <<>> /\ toUpperCase(r.constraint) \notin {UNIQUE, NOT_NULL, NULL}
OffendingRequests(a) ==
  {k \in 1..Len(a.schemaChanges) :
     InvalidRequest(a.schemaChanges[k]) \/ UnsupportedConstraint(a.schemaChanges[k])}

\* the number of ALTER statements a well-formed request stands for
NumAlter(r) ==
  (IF r.type # <<>> THEN 1 ELSE 0)
  + (IF r.constraint = <<>> THEN 0
     ELSE IF toUpperCase(r.constraint) = UNIQUE THEN 2 ELSE 1)

RECURSIVE NumAlterBefore(_, _)
NumAlterBefore(sc, k) ==
  IF k <= 1 THEN 0 ELSE NumAlterBefore(sc, k - 1) + NumAlter(sc[k - 1])

UpdatesSent == {i \in 1..Len(sent) : StmtKind(sent[i]) = "UPDATE"}
AltersSent == {i \in 1..Len(sent) : StmtKind(sent[i]) = "ALTER TABLE"}

\* statement i is the UPDATE of entry i: its parameters are the entry's values, then its id
IsUpdateOf(i, e) ==
  /\ StmtKind(sent[i]) = "UPDATE"
  /\ ParamItems(sent[i]) = [j \in 1..Len(e.data) |-> e.data[j].val] \o <<e.id>>

UpdateReturned == pc = "returned" /\ InCall({"updateDataInTable"})

\* C6 as stated: when update fails with InvalidUpdate, InvalidSchemaChange or
\* UnsupportedConstraint, it has sent no UPDATE and no ALTER statement.
C6_LocalErrorBeforeAnyStatement ==
  (UpdateReturned /\ FailureEnvelope
     /\ env.message.fmt \in {InvalidUpdateText, InvalidSchemaChangeText,
                             UnsupportedConstraintText})
    => (UpdatesSent = {} /\ AltersSent = {})

\* C6 as amended: the error is detected before any statement of the offending entry
\* or request, and of every later one, is sent, but after the statements of the
\* earlier ones: failing with InvalidUpdate at entry k, the call has sent exactly the
\* UPDATEs of entries 1..k-1 and no ALTER; failing with InvalidSchemaChange or
\* UnsupportedConstraint at request k, it has sent the UPDATE of every entry and
\* every ALTER of requests 1..k-1, all of these ALTERs completed, and no more.
C6_LocalErrorBeforeOffendingStatement ==
  (UpdateReturned /\ FailureEnvelope) =>
    LET a == call.arg
    IN /\ env.message.fmt = InvalidUpdateText =>
            /\ InvalidEntries(a) # {}
            /\ Len(sent) = Least(InvalidEntries(a)) - 1
            /\ \A i \in 1..Len(sent) : IsUpdateOf(i, a.updates[i])
       /\ env.message.fmt \in {InvalidSchemaChangeText, UnsupportedConstraintText} =>
            /\ OffendingRequests(a) # {}
            /\ LET k == Least(OffendingRequests(a))
               IN /\ (env.message.fmt = InvalidSchemaChangeText)
                       <=> InvalidRequest(a.schemaChanges[k])
                  /\ UpdatesSent = 1..Len(a.updates)
                  /\ \A i \in UpdatesSent : IsUpdateOf(i, a.updates[i])
                  /\ Cardinality(AltersSent) = NumAlterBefore(a.schemaChanges, k)
                  /\ \A i \in AltersSent : sent[i].st = "ok"
                  /\ Len(sent) = Cardinality(UpdatesSent) + Cardinality(AltersSent)

C6_Witness ==
  /\ UpdateReturned
  /\ env.message.fmt = UnsupportedConstraintText
  /\ UpdatesSent # {}
  /\ AltersSent # {}

\* C7: when the updates list holds an invalid entry (no truthy id, or empty data),
\* update returns a failure envelope wherever the entry stands and however the
\* statements are scheduled; it has sent the UPDATEs of exactly the entries before
\* the first invalid one (none when the table name is rejected), nothing that undoes
\* them, and no schema change.
C7_InvalidEntryFailsTheCall ==
  (UpdateReturned /\ InvalidEntries(call.arg) # {}) =>
    LET a == call.arg
        k == Least(InvalidEntries(a))
    IN /\ FailureEnvelope
       /\ AltersSent = {}
       /\ Len(sent) = IF BadName(call) THEN 0 ELSE k - 1
       /\ \A i \in 1..Len(sent) : IsUpdateOf(i, a.updates[i])

C7_Witness ==
  /\ UpdateReturned
  /\ Len(call.arg.updates) = 2
  /\ ~InvalidEntry(call.arg.updates[1])
  /\ call.arg.updates[2].data = <<>>
  /\ call.arg.schemaChanges # <<>>
  /\ Len(sent) = 1
  /\ sent[1].st = "ok"
  /\ sent[1].rows # <<>>
  /\ FailureEnvelope

RECURSIVE RowsInArrayOrder(_, _)
RowsInArrayOrder(i, n) ==
  IF i > n THEN <<>> ELSE sent[i].rows \o RowsInArrayOrder(i + 1, n)

\* C8: a successful update returns the rows of its UPDATE statements concatenated
\* in the order of the updates array, whatever the order the statements completed
\* in; when one UPDATE statement has failed the call returns success:false and no
\* rows; a call with a valid name and valid entries only (no schema change) fails
\* only when a statement fails.
C8_RowsInArrayOrderOrFailure ==
  UpdateReturned =>
    LET a == call.arg
        n == Len(a.updates)
    IN /\ env.success =>
            /\ UpdatesSent = 1..n
            /\ \A i \in 1..n : IsUpdateOf(i, a.updates[i]) /\ sent[i].st = "ok"
            /\ env.kind = "envelope"
            /\ env.field = "data"
            /\ env.data = RowsInArrayOrder(1, n)
       /\ (\E i \in UpdatesSent : sent[i].st = "fail") =>
            /\ FailureEnvelope
            /\ env.field # "data"
            /\ env.data = <<>>
       /\ (n > 0 /\ InvalidEntries(a) = {} /\ ~BadName(call) /\ a.schemaChanges = <<>>
             /\ ~env.success) =>
            \E i \in UpdatesSent : sent[i].st = "fail"

C8_Witness ==
  /\ UpdateReturned
  /\ env.success
  /\ Len(call.arg.updates) = 2
  /\ sent[2].at < sent[1].at
  /\ sent[1].rows # <<>>
  /\ sent[2].rows # <<>>
  /\ sent[1].rows # sent[2].rows
  /\ env.data = sent[1].rows \o sent[2].rows

-----------------------------------------------------------------------------
(* C9, C10 *)

ColumnTypes == {"integer", "text", "timestamp", "boolean", "decimal"}
BaselineNames == {ID, CREATED_AT, UPDATED_AT}
JoinKinds == {INNER, LEFT, RIGHT, FULL}
CriteriaOperators == {"$lt", "$gt", "$lte", "$gte", "$ne"}

\* a local check of the call fails; `dropped` tells whether the type of a caller
\* column that bears a baseline name counts
LocalCheckFails(c, dropped) ==
  \/ BadName(c)
  \/ /\ c.op = "createDynamicTable"
     /\ \/ ~c.arg.columns.isArray
        \/ c.arg.columns.items = <<>>
        \/ \E i \in 1..Len(c.arg.columns.items) :
             /\ c.arg.columns.items[i].type \notin ColumnTypes
             /\ dropped \/ c.arg.columns.items[i].name \notin BaselineNames
  \/ /\ c.op = "addDataToTable"
     /\ \/ c.arg.data.kind = "missing"
        \/ c.arg.data.kind = "array" /\ c.arg.data.rows = <<>>
  \/ /\ c.op = "removeDataFromTable"
     /\ \/ c.arg.ids.kind = "missing"
        \/ c.arg.ids.kind = "array" /\ c.arg.ids.items = <<>>
  \/ /\ c.op = "searchDataInTable"
     /\ \E i \in 1..Len(c.arg.criteria) :
          /\ c.arg.criteria[i].value.kind = "map"
          /\ \A k \in 1..Len(c.arg.criteria[i].value.ops) :
               c.arg.criteria[i].value.ops[k].op \notin CriteriaOperators
  \/ /\ c.op = "joinTables"
     /\ \/ c.arg.joinType.present /\ toUpperCase(c.arg.joinType.s) \notin JoinKinds
        \/ c.arg.onCondition.kind # "string"

FiveOperations == {"createDynamicTable", "addDataToTable", "searchDataInTable",
                   "removeDataFromTable", "joinTables"}

\* C9 as stated: createTable, insert, search, remove and join send no statement and
\* return success:false when a local check fails, a column type outside the five
\* types on any caller column included.
C9_LocalCheckSendsNothing ==
  (InCall(FiveOperations) /\ LocalCheckFails(call, TRUE)) =>
    (sent = <<>> /\ pc = "returned" /\ FailureEnvelope)

\* C9 as amended: the same, the column type being checked only on the caller
\* columns that are kept: a caller column named id, created_at or updated_at is
\* dropped before its type is looked at, so its type fails no check.
C9_KeptColumnCheckSendsNothing ==
  (InCall(FiveOperations) /\ LocalCheckFails(call, FALSE)) =>
    (sent = <<>> /\ pc = "returned" /\ FailureEnvelope)

C9_Witness ==
  /\ InCall({"createDynamicTable"})
  /\ ~BadName(call)
  /\ Len(call.arg.columns.items) = 2
  /\ call.arg.columns.items[1].type \in ColumnTypes
  /\ call.arg.columns.items[2].type \notin ColumnTypes
  /\ call.arg.columns.items[2].name \notin BaselineNames
  /\ sent = <<>>
  /\ pc = "returned"
  /\ FailureEnvelope

TokenValues(toks) == [k \in 1..Len(toks) |-> toks[k].v]
KeptCallerColumn(col) == col.name \notin BaselineNames

\* C10: the column list of the CREATE statement is id (auto-increment integer,
\* primary key), created_at, updated_at, in that order, then exactly the caller
\* columns whose name is no baseline name, in caller order.
C10_BaselineThenCallerColumns ==
  (InCall({"createDynamicTable"}) /\ sent # <<>>) =>
    LET sql == sent[1].sql
        kept == SelectSeq(call.arg.columns.items, KeptCallerColumn)
    IN /\ Len(sent) = 1
       /\ Len(sql) >= 12
       /\ SubSeq(sql, 1, 11) =
            <<Kw("CREATE TABLE IF NOT EXISTS"), Interp(call.arg.schemaName), Kw("("),
              Interp(ID), Kw("SERIAL"), Kw("PRIMARY KEY"), Kw(", "),
              Interp(CREATED_AT), Kw("TIMESTAMPTZ DEFAULT NOW()"), Kw(", "),
              Interp(UPDATED_AT)>>
       /\ sql[12] = Kw("TIMESTAMPTZ DEFAULT NOW()")
       /\ TokenValues(InterpTokens(sql)) =
            <<call.arg.schemaName, ID, CREATED_AT, UPDATED_AT>>
              \o [i \in 1..Len(kept) |-> kept[i].name]
       /\ Cardinality({k \in 1..Len(sql) : sql[k] = Kw(", ")}) = 2 + Len(kept)

C10_Witness ==
  /\ InCall({"createDynamicTable"})
  /\ Len(sent) = 1
  /\ Len(call.arg.columns.items) = 2
  /\ call.arg.columns.items[1].name = ID
  /\ call.arg.columns.items[1].type = "bogus"
  /\ call.arg.columns.items[2].name = <<"a">>

-----------------------------------------------------------------------------
(* C11 *)

\* the call's statement was refused for a reason other than the store being
\* unreachable or broken
RefusedByTheStore == sent # <<>> /\ sent[Len(sent)].st = "fail" /\ sent[Len(sent)].error # "error"

\* C11: createTable is idempotent.  A table that is stored is never changed by a
\* createTable call (columns, rows and sequence stay as they are), a call on a
\* stored name is never refused because the table exists, and a call whose
\* statement is executed reports success with the table stored; so a second call
\* with the same arguments leaves the database as the first one left it.
C11_CreateIsIdempotent ==
  /\ [](InCall({"createDynamicTable"}) =>
          /\ ~RefusedByTheStore
          /\ (pc = "returned" /\ sent # <<>> /\ sent[1].st = "ok") =>
               (env.kind = "envelope" /\ env.success /\ call.arg.schemaName \in DOMAIN db)
          /\ (pc = "returned" /\ env.success) => call.arg.schemaName \in DOMAIN db)
  /\ [][\A n \in DOMAIN db : n \in DOMAIN db' /\ db'[n] = db[n]]_vars

\* a second call with the same arguments has returned success on a table that the
\* first call created
C11_Witness ==
  /\ InCall({"createDynamicTable"})
  /\ ncalls = 1
  /\ pc = "returned"
  /\ env.success
  /\ Len(call.arg.columns.items) = 2
  /\ <<"t">> \in DOMAIN db
  /\ db[<<"t">>].columns = StmtColumnDefs(sent[1])
  /\ db[<<"t">>] # StoredTable

-----------------------------------------------------------------------------
(* C12 *)

MutationOperations == {"addDataToTable", "updateDataInTable", "removeDataFromTable"}

\* the store refused a statement of the call
StoreRejected == \E i \in 1..Len(sent) : sent[i].st = "fail"

ContainsStoreText(m) == m.fmt = "<store error text>" \/ \E k \in 1..Len(m.arg) : m.arg[k] = "<store error text>"

\* C12: when the database rejects a statement issued by insert, update or remove,
\* the message of the failure envelope is a fixed generic string that does not
\* contain the store's error text.
C12_StoreErrorTextHidden ==
  (pc = "returned" /\ InCall(MutationOperations) /\ StoreRejected /\ FailureEnvelope) =>
    ~ContainsStoreText(env.message)

-----------------------------------------------------------------------------
(* C13 *)

\* the caller columns that reach the type switch with a type outside the five
UnsupportedTypeColumns(a) ==
  {i \in 1..Len(a.columns.items) :
     /\ KeptCallerColumn(a.columns.items[i])
     /\ a.columns.items[i].type \notin ColumnTypes}

MessageNames(m, word) == \E k \in 1..Len(m.arg) : m.arg[k] = word

\* C13: when createTable is given a column whose type is outside {integer, text,
\* timestamp, boolean, decimal}, the failure envelope's message names the
\* unsupported type.
C13_UnsupportedTypeNamed ==
  (/\ pc = "returned"
   /\ InCall({"createDynamicTable"})
   /\ ~BadName(call)
   /\ call.arg.columns.isArray
   /\ UnsupportedTypeColumns(call.arg) # {}) =>
    /\ FailureEnvelope
    /\ \E i \in UnsupportedTypeColumns(call.arg) :
         MessageNames(env.message, call.arg.columns.items[i].type)

-----------------------------------------------------------------------------
(* C14 *)

\* the documented example: criteria { id: [3, 4] }
IdListCriteria == <<Crit(ID, ArrayValue)>>

\* C14: searchDataInTable called with a criteria value that is a list of ids, as in
\* the documented example, returns success with the records having those ids: the
\* search reaches the store, and succeeds with the store's rows when the store
\* executes it.
C14_IdListSearchSucceeds ==
  (/\ pc = "returned"
   /\ InCall({"searchDataInTable"})
   /\ ~BadName(call)
   /\ call.arg.criteria = IdListCriteria) =>
    /\ Len(sent) = 1
    /\ sent[1].st = "ok" =>
         (env.kind = "envelope" /\ env.success /\ env.data = sent[1].rows)

-----------------------------------------------------------------------------
(* C15 *)

\* what an ALTER statement does to which column
Alter(column, what) == [column |-> column, what |-> what]

AlterOf(s) ==
  IF s.sql[3] = Kw("ALTER COLUMN")
  THEN Alter(s.sql[4].v, s.sql[5].v[1])
  ELSE Alter(s.sql[6].v, s.sql[3].v[1])

\* the alterations a request asks for: the type change, then the constraint's
AltersAskedBy(r) ==
  (IF r.type # <<>> THEN <<Alter(r.column, "SET DATA TYPE")>> ELSE <<>>)
  \o (CASE toUpperCase(r.constraint) = UNIQUE ->
             <<Alter(r.column, "DROP CONSTRAINT IF EXISTS"), Alter(r.column, "ADD CONSTRAINT")>>
        [] toUpperCase(r.constraint) = NOT_NULL -> <<Alter(r.column, "SET NOT NULL")>>
        [] toUpperCase(r.constraint) = NULL -> <<Alter(r.column, "DROP NOT NULL")>>
        [] OTHER -> <<>>)

\* those of the requests 1..k, in list order
RECURSIVE AltersAskedUpTo(_, _)
AltersAskedUpTo(sc, k) ==
  IF k = 0 THEN <<>> ELSE AltersAskedUpTo(sc, k - 1) \o AltersAskedBy(sc[k])

AlterStatements == SelectSeq(sent, LAMBDA x : StmtKind(x) = "ALTER TABLE")

\* C15: within one update call at most one schema-alteration statement is in flight
\* at any time, and the alterations are sent in order: requests in list order, within
\* a request the type change first, then the constraint statements (for UNIQUE the
\* DROP CONSTRAINT IF EXISTS, then the ADD CONSTRAINT); each is sent only after the
\* previous one has completed successfully.
C15_AlterationsOneAtATimeInOrder ==
  InCall({"updateDataInTable"}) =>
    LET asked == AltersAskedUpTo(call.arg.schemaChanges, Len(call.arg.schemaChanges))
    IN /\ Cardinality({i \in 1..Len(AlterStatements) : AlterStatements[i].st = "pending"}) <= 1
       /\ \A i \in 1..(Len(AlterStatements) - 1) : AlterStatements[i].st = "ok"
       /\ Len(AlterStatements) <= Len(asked)
       /\ \A i \in 1..Len(AlterStatements) : AlterOf(AlterStatements[i]) = asked[i]

\* the four alterations of a type-and-UNIQUE request followed by a NOT NULL request
\* have been sent, the last one still in flight
C15_Witness ==
  /\ InCall({"updateDataInTable"})
  /\ Len(call.arg.schemaChanges) = 2
  /\ Len(AlterStatements) = 4
  /\ AlterOf(AlterStatements[1]).what = "SET DATA TYPE"
  /\ AlterOf(AlterStatements[2]).what = "DROP CONSTRAINT IF EXISTS"
  /\ AlterOf(AlterStatements[3]).what = "ADD CONSTRAINT"
  /\ AlterOf(AlterStatements[4]).what = "SET NOT NULL"
  /\ AlterStatements[4].st = "pending"

-----------------------------------------------------------------------------
(* C16 *)

\* the first request of the call that carries an unsupported constraint, the
\* requests before it being well-formed with supported constraints (0 when none)
FirstUnsupportedRequest(a) ==
  IF OffendingRequests(a) # {} /\ ~InvalidRequest(a.schemaChanges[Least(OffendingRequests(a))])
  THEN Least(OffendingRequests(a))
  ELSE 0

\* C16: when schema change request k of an update call carries a constraint outside
\* {UNIQUE, NOT NULL, NULL} (case-insensitive), no statement of request k (not even
\* its type change) and none of a later request is ever sent; and when the call
\* gets to request k (the store has refused no earlier alteration), it returns
\* failure naming the constraint, every statement of the requests before k has been
\* executed, and nothing is sent to undo them.
C16_UnsupportedConstraintStopsAtRequest ==
  (/\ InCall({"updateDataInTable"})
   /\ ~BadName(call)
   /\ InvalidEntries(call.arg) = {}
   /\ FirstUnsupportedRequest(call.arg) # 0) =>
    LET sc == call.arg.schemaChanges
        k == FirstUnsupportedRequest(call.arg)
        before == AltersAskedUpTo(sc, k - 1)
    IN /\ Len(AlterStatements) <= Len(before)
       /\ \A i \in 1..Len(AlterStatements) : AlterOf(AlterStatements[i]) = before[i]
       /\ Len(sent) = Len(call.arg.updates) + Len(AlterStatements)
       /\ (pc = "returned" /\ \A i \in 1..Len(AlterStatements) : AlterStatements[i].st # "fail") =>
            /\ FailureEnvelope
            /\ env.message = Msg(UnsupportedConstraintText, sc[k].constraint)
            /\ Len(AlterStatements) = Len(before)
            /\ \A i \in 1..Len(AlterStatements) : AlterStatements[i].st = "ok"

\* the second request carries a type change and the constraint "bogus": the call
\* failed after the three alterations of the first request were executed
C16_Witness ==
  /\ UpdateReturned
  /\ FirstUnsupportedRequest(call.arg) = 2
  /\ call.arg.schemaChanges[2].type # <<>>
  /\ Len(call.arg.updates) = 1
  /\ Len(AlterStatements) = 3
  /\ \A i \in 1..3 : AlterStatements[i].st = "ok"
  /\ env.message.fmt = UnsupportedConstraintText

-----------------------------------------------------------------------------
(* C17 *)

FixedOrder == <<"$lt", "$gt", "$lte", "$gte", "$ne">>

Comparison(op) ==
  CASE op = "$lt" -> "<" [] op = "$gt" -> ">" [] op = "$lte" -> "<="
    [] op = "$gte" -> ">=" [] op = "$ne" -> "<>"

\* the entry is a scalar, or a mapping with at least one of the five operators
PlainEntry(c) ==
  \/ c.value.kind = "scalar"
  \/ /\ c.value.kind = "map"
     /\ \E k \in 1..Len(c.value.ops) : c.value.ops[k].op \in CriteriaOperators

\* the operator of a mapping that comes first in the fixed order, and its bound
ChosenOperator(value) ==
  FixedOrder[Least({o \in 1..Len(FixedOrder) :
                      \E k \in 1..Len(value.ops) : value.ops[k].op = FixedOrder[o]})]
ChosenBound(value) ==
  value.ops[CHOOSE k \in 1..Len(value.ops) : value.ops[k].op = ChosenOperator(value)].bound

ComparisonOf(c) == IF c.value.kind = "scalar" THEN "=" ELSE Comparison(ChosenOperator(c.value))
LiteralOf(c) == IF c.value.kind = "scalar" THEN c.value.lit ELSE ChosenBound(c.value)

\* C17: for a search with n criteria entries, each a scalar or a mapping containing
\* at least one of $lt,$gt,$lte,$gte,$ne, the statement sent has exactly n conditions
\* joined by AND in declaration order, the i-th using placeholder $i with parameter i
\* the entry's literal; a scalar gives equality, a mapping the comparison of the first
\* operator it contains in the order $lt,$gt,$lte,$gte,$ne; with n = 0 the statement
\* has no WHERE clause and no parameters.
C17_SearchStatementShape ==
  (/\ InCall({"searchDataInTable"})
   /\ ~BadName(call)
   /\ \A i \in 1..Len(call.arg.criteria) : PlainEntry(call.arg.criteria[i])) =>
    LET crit == call.arg.criteria
        n == Len(crit)
    IN /\ Len(sent) = 1
       /\ SubSeq(sent[1].sql, 1, 2) = <<Kw("SELECT * FROM"), Interp(call.arg.tableName)>>
       /\ Len(sent[1].params) = n
       /\ Len(sent[1].sql) = IF n = 0 THEN 2 ELSE 2 + 4 * n
       /\ n > 0 => sent[1].sql[3] = Kw("WHERE")
       /\ \A i \in 1..n :
            /\ SubSeq(sent[1].sql, 4 * i, 4 * i + 2) =
                 <<Interp(crit[i].key), Kw(ComparisonOf(crit[i])), Ph(i)>>
            /\ i < n => sent[1].sql[4 * i + 3] = Kw("AND")
            /\ sent[1].params[i] = Scalar(LiteralOf(crit[i]))

\* a scalar entry, then a mapping that lists $ne before $lt: the second condition
\* compares with < and binds the bound of $lt
C17_Witness ==
  /\ InCall({"searchDataInTable"})
  /\ Len(sent) = 1
  /\ Len(call.arg.criteria) = 2
  /\ call.arg.criteria[1].value.kind = "scalar"
  /\ call.arg.criteria[2].value.kind = "map"
  /\ Len(call.arg.criteria[2].value.ops) = 2
  /\ call.arg.criteria[2].value.ops[1].op = "$ne"
  /\ sent[1].sql[9] = Kw("<")
  /\ sent[1].params[2] = Scalar(call.arg.criteria[2].value.ops[2].bound)

-----------------------------------------------------------------------------
(* C18 *)

KeySet(row) == {row[j].key : j \in 1..Len(row)}

\* R >= 1 rows that all have the same C keys
SameKeys(rows) ==
  /\ Len(rows) >= 1
  /\ \A i \in 1..Len(rows) :
       /\ Len(rows[i]) = Len(rows[1])
       /\ KeySet(rows[i]) = KeySet(rows[1])
       /\ Cardinality(KeySet(rows[i])) = Len(rows[i])

\* the text between ") VALUES" and "RETURNING *"
ValuesPart(sql) ==
  LET from == CHOOSE k \in 1..Len(sql) : sql[k] = Kw(") VALUES")
  IN SubSeq(sql, from + 1, Len(sql) - 1)

\* C18: insert with R >= 1 rows that all have the same C keys sends exactly one
\* INSERT statement with R groups of C placeholders numbered 1..R*C consecutively in
\* row-major order and exactly R*C parameters, parameter (i-1)*C+j being the j-th
\* value of row i; on success it returns exactly R rows with pairwise distinct ids.
C18_InsertPlaceholdersRowMajor ==
  (/\ InCall({"addDataToTable"})
   /\ ~BadName(call)
   /\ call.arg.data.kind # "missing"
   /\ SameKeys(call.arg.data.rows)) =>
    LET rows == call.arg.data.rows
        R == Len(rows)
        C == Len(rows[1])
        part == ValuesPart(sent[1].sql)
    IN /\ Len(sent) = 1
       /\ sent[1].sql[1] = Kw("INSERT INTO")
       /\ sent[1].sql[Len(sent[1].sql)] = Kw("RETURNING *")
       /\ Len(part) = R * (2 * C + 1) + (R - 1)
       /\ \A i \in 1..R :
            LET off == (i - 1) * (2 * C + 2)
            IN /\ part[off + 1] = Kw("(")
               /\ \A j \in 1..C :
                    /\ part[off + 2 * j] = Ph((i - 1) * C + j)
                    /\ j < C => part[off + 2 * j + 1] = Kw(", ")
               /\ part[off + 2 * C + 1] = Kw(")")
               /\ i < R => part[off + 2 * C + 2] = Kw(", ")
       /\ Len(sent[1].params) = R * C
       /\ \A i \in 1..R : \A j \in 1..C :
            sent[1].params[(i - 1) * C + j] = Scalar(rows[i][j].val)
       /\ (pc = "returned" /\ env.success) =>
            /\ Len(env.data) = R
            /\ \A x, y \in 1..R : x # y => env.data[x].id # env.data[y].id

\* two rows of two keys each were inserted and came back with ids
C18_Witness ==
  /\ InCall({"addDataToTable"})
  /\ call.arg.data.kind = "array"
  /\ Len(call.arg.data.rows) = 2
  /\ SameKeys(call.arg.data.rows)
  /\ Len(call.arg.data.rows[1]) = 2
  /\ pc = "returned"
  /\ env.success
  /\ Len(env.data) = 2
  /\ Len(db[<<"t">>].rows) = 3

-----------------------------------------------------------------------------
(* C19 *)

\* the fixed tool table
ToolTable == {"createDynamicTable", "getTableColumns", "addDataToTable",
              "updateDataInTable", "searchDataInTable", "removeDataFromTable",
              "joinTables"}

\* the last thing that happened to the request: a throw, an output reply, an action
\* naming no tool of the table
LastThrew == chat.last.kind \in {"rejects", "badJson", "null", "tool rejects"}
LastIsOutput == chat.last.kind = "json" /\ chat.last.type = "output"
LastIsUnknownAction ==
  chat.last.kind = "json" /\ chat.last.type = "action" /\ chat.last.function \notin ToolTable

\* C19: each /chat request receives at most one response, sent at the first model
\* reply that is an output (200), or an action naming a tool outside the fixed tool
\* table (400, nothing executed for it), or when a model call, JSON parse or tool
\* call throws (500); on any other reply (plan, known action, unknown or missing
\* type) the handler has sent nothing and goes on to call the model again.
C19_OneResponseAtFirstEndingReply ==
  chat.pc \in {"model", "tool", "done"} =>
    /\ Len(chat.responses) <= 1
    /\ chat.pc = "done" <=> Len(chat.responses) = 1
    /\ LastIsOutput => chat.responses = <<200>>
    /\ LastIsUnknownAction =>
         /\ chat.responses = <<400>>
         /\ \A i \in 1..Len(chat.ran) : chat.ran[i] \in ToolTable
    /\ LastThrew => chat.responses = <<500>>
    /\ ~(LastIsOutput \/ LastIsUnknownAction \/ LastThrew) => chat.responses = <<>>

-----------------------------------------------------------------------------
(* C20 *)

\* the call is past its schema loop: Promise.all is awaited, or its results returned
ResultsCollected ==
  pc = "awaitAll" \/ (pc = "returned" /\ env.kind = "envelope" /\ env.success)

\* C20: in an update call carrying both updates and schemaChanges, every data-update
\* statement is sent, in array order, before the first schema-alteration statement,
\* and the update results are collected only after the last alteration has
\* completed: the updates are in flight while the alterations are sent and awaited.
C20_UpdatesSentBeforeAlterations ==
  (/\ InCall({"updateDataInTable"})
   /\ Len(call.arg.updates) > 0
   /\ Len(call.arg.schemaChanges) > 0) =>
    LET a == call.arg
        asked == AltersAskedUpTo(a.schemaChanges, Len(a.schemaChanges))
    IN /\ \A i \in UpdatesSent : \A j \in AltersSent : i < j
       /\ AltersSent # {} =>
            /\ UpdatesSent = 1..Len(a.updates)
            /\ \A i \in 1..Len(a.updates) : IsUpdateOf(i, a.updates[i])
       /\ ResultsCollected =>
            /\ UpdatesSent = 1..Len(a.updates)
            /\ Len(AlterStatements) = Len(asked)
            /\ \A i \in 1..Len(AlterStatements) : AlterStatements[i].st = "ok"

\* an UPDATE of the call is still in flight, another has completed, and an
\* alteration is in flight
C20_Witness ==
  /\ InCall({"updateDataInTable"})
  /\ Len(call.arg.updates) = 2
  /\ Len(sent) >= 3
  /\ sent[1].st = "ok"
  /\ sent[2].st = "pending"
  /\ AltersSent # {}
  /\ sent[Len(sent)].st = "pending"
  /\ StmtKind(sent[Len(sent)]) = "ALTER TABLE"

-----------------------------------------------------------------------------
(* C21 *)

\* the call got as far as `await Promise.all(queries)`, which puts a handler on
\* every promise of `queries`
PromiseAllReached == si > Len(call.arg.schemaChanges)

\* an UPDATE of the call that is still in flight, or that failed with no handler on
\* its promise
InFlight(i) == sent[i].st = "pending"
Unobserved(i) == sent[i].st = "fail" /\ ~PromiseAllReached

\* C21: when an update call has returned its envelope, every UPDATE statement it
\* sent has completed and its outcome has been observed by the call: none is still
\* in flight and no failure of one is left unhandled.
C21_NoUpdateLeftBehindAtReturn ==
  UpdateReturned => \A i \in UpdatesSent : ~InFlight(i) /\ ~Unobserved(i)

-----------------------------------------------------------------------------
(* C22 *)

\* C22: for insert with rows that all have the same set of column keys, possibly in
\* a different key order from row to row, every value is bound to the placeholder
\* that stands, in its row's group, at the position of its own column in the
\* statement's column list, so each value is stored in the column it was given for.
C22_ValuesBoundToOwnColumns ==
  (/\ InCall({"addDataToTable"})
   /\ ~BadName(call)
   /\ call.arg.data.kind # "missing"
   /\ SameKeys(call.arg.data.rows)
   /\ Len(sent) = 1) =>
    LET rows == call.arg.data.rows
        C == Len(rows[1])
        cols == StmtColumnList(sent[1])
        phs == StmtPlaceholders(sent[1])
    IN /\ \A i \in 1..Len(rows) : \A j \in 1..C : \A p \in 1..Len(cols) :
            cols[p].v = rows[i][j].key =>
              sent[1].params[phs[(i - 1) * C + p].n] = Scalar(rows[i][j].val)
       /\ (pc = "returned" /\ env.success) =>
            \A i \in 1..Len(rows) : \A j \in 1..C :
              \E p \in 1..Len(env.data[i].cells) :
                env.data[i].cells[p] = [key |-> rows[i][j].key, val |-> rows[i][j].val]

====
